---- MODULE Spec2Model ----
(***************************************************************************)
(* Samocode orchestrator: the phase graph (worker/phases.py), the signal   *)
(* codec (worker/signals.py), the signal history ledger                    *)
(* (worker/signal_history.py), the retry wrapper (worker/runner.py) and    *)
(* the orchestrator loop (main.py).                                        *)
(*                                                                         *)
(* Python values are modelled as strings.  None stands for Python None, a  *)
(* JSON null or an absent key; NonStr stands for a truthy JSON value that  *)
(* is not a string (5, ["a"], {"a": 1}), on which str methods raise        *)
(* AttributeError.  Return codes and exit codes are the strings "0", "1".  *)
(* Time stamps and log text are not modelled.  The operator's Ctrl-C       *)
(* (KeyboardInterrupt) is outside the model.                               *)
(***************************************************************************)
EXTENDS Integers, Sequences, FiniteSets, TLC

None == "~none"
NonStr == "~nonstr"

\* Python truthiness of an optional string / JSON value
Truthy(v) == v \notin {None, ""}

\* str.lower() on the strings the model uses
Lower(s) ==
  CASE s = "PLANNING" -> "planning"
    [] s = "Requirements" -> "requirements"
    [] s = "Done" -> "done"
    [] s = "TESTING" -> "testing"
    [] s = "Init" -> "init"
    [] s = "Waiting" -> "waiting"
    [] s = "CONTINUE" -> "continue"
    [] s = "BLOCKED" -> "blocked"
    [] s = "DONE" -> "done"
    [] s = "INIT" -> "init"
    [] s = "Investigation" -> "investigation"
    [] s = "IMPLEMENTATION" -> "implementation"
    [] s = "Quality" -> "quality"
    [] OTHER -> s

(***************************************************************************)
(* worker/phases.py                                                        *)
(***************************************************************************)
Phase == {"init", "investigation", "requirements", "planning",
          "implementation", "testing", "quality", "done"}

PHASE_CONFIGS ==
  [ init |->
    [phase |-> "init", agent_name |-> "init-agent",
     allowed_next |-> {"investigation"},
     allowed_signals |-> {"continue", "blocked"},
     max_iterations |-> 5, requires_gate |-> FALSE],
    investigation |->
    [phase |-> "investigation", agent_name |-> "investigation-agent",
     allowed_next |-> {"requirements"},
     allowed_signals |-> {"continue", "blocked"},
     max_iterations |-> 20, requires_gate |-> FALSE],
    requirements |->
    [phase |-> "requirements", agent_name |-> "requirements-agent",
     allowed_next |-> {"planning"},
     allowed_signals |-> {"continue", "waiting", "blocked"},
     max_iterations |-> 10, requires_gate |-> TRUE],
    planning |->
    [phase |-> "planning", agent_name |-> "planning-agent",
     allowed_next |-> {"implementation"},
     allowed_signals |-> {"continue", "waiting", "blocked"},
     max_iterations |-> 10, requires_gate |-> TRUE],
    implementation |->
    [phase |-> "implementation", agent_name |-> "implementation-agent",
     allowed_next |-> {"testing"},
     allowed_signals |-> {"continue", "waiting", "blocked"},
     max_iterations |-> 100, requires_gate |-> FALSE],
    testing |->
    [phase |-> "testing", agent_name |-> "testing-agent",
     allowed_next |-> {"quality", "done"},
     allowed_signals |-> {"continue", "blocked"},
     max_iterations |-> 20, requires_gate |-> FALSE],
    quality |->
    [phase |-> "quality", agent_name |-> "quality-agent",
     allowed_next |-> {"testing"},
     allowed_signals |-> {"continue", "blocked"},
     max_iterations |-> 10, requires_gate |-> FALSE],
    done |->
    [phase |-> "done", agent_name |-> "done-agent",
     allowed_next |-> {},
     allowed_signals |-> {"done", "blocked"},
     max_iterations |-> 3, requires_gate |-> FALSE] ]

\* the value get_phase_config returns for "no configuration" (Python None)
NoConfig ==
  [phase |-> None, agent_name |-> None, allowed_next |-> {},
   allowed_signals |-> {}, max_iterations |-> 0, requires_gate |-> FALSE]

\* get_phase_config raises AttributeError on a non-string (only ValueError is caught)
get_phase_config_raises(phase_str) == phase_str = NonStr

get_phase_config(phase_str) ==
  IF phase_str = None THEN NoConfig
  ELSE IF Lower(phase_str) \in Phase THEN PHASE_CONFIGS[Lower(phase_str)]
  ELSE NoConfig

get_agent_for_phase(phase_str) == get_phase_config(phase_str).agent_name

\* validate_transition without the allowed_next test
validate_transition_any_known(from_phase, to_phase) ==
  IF to_phase = None THEN <<FALSE, "Invalid phases">>
  ELSE IF from_phase = None THEN
    IF Lower(to_phase) = "init" THEN <<TRUE, "">>
    ELSE <<FALSE, "New session must start with 'init'">>
  ELSE IF get_phase_config(from_phase) = NoConfig THEN <<FALSE, "Unknown source phase">>
  ELSE IF Lower(to_phase) \notin Phase THEN <<FALSE, "Unknown target phase">>
  ELSE <<TRUE, "">>

\* validate_transition without the same-phase rule
validate_transition_no_self_loop(from_phase, to_phase) ==
  IF to_phase = None THEN <<FALSE, "Invalid phases">>
  ELSE IF from_phase = None THEN
    IF Lower(to_phase) = "init" THEN <<TRUE, "">>
    ELSE <<FALSE, "New session must start with 'init'">>
  ELSE IF get_phase_config(from_phase) = NoConfig THEN <<FALSE, "Unknown source phase">>
  ELSE IF Lower(to_phase) \notin Phase THEN <<FALSE, "Unknown target phase">>
  ELSE IF Lower(to_phase) \notin get_phase_config(from_phase).allowed_next
    THEN <<FALSE, "Invalid transition">>
  ELSE <<TRUE, "">>

\* validate_transition letting every known phase move to every known phase
validate_transition_all_moves(from_phase, to_phase) ==
  IF to_phase = None THEN <<FALSE, "Invalid phases">>
  ELSE IF from_phase = None THEN
    IF Lower(to_phase) = "init" THEN <<TRUE, "">>
    ELSE <<FALSE, "New session must start with 'init'">>
  ELSE IF get_phase_config(from_phase) = NoConfig THEN <<FALSE, "Unknown source phase">>
  ELSE IF Lower(to_phase) \notin Phase THEN <<FALSE, "Unknown target phase">>
  ELSE <<TRUE, "">>

\* validate_transition: <<is_valid, error kind>>
validate_transition(from_phase, to_phase) ==
  IF to_phase = None THEN <<FALSE, "Invalid phases">>
  ELSE IF from_phase = None THEN
    IF Lower(to_phase) = "init" THEN <<TRUE, "">>
    ELSE <<FALSE, "New session must start with 'init'">>
  ELSE IF get_phase_config(from_phase) = NoConfig THEN <<FALSE, "Unknown source phase">>
  ELSE IF Lower(to_phase) \notin Phase THEN <<FALSE, "Unknown target phase">>
  ELSE IF Lower(from_phase) = Lower(to_phase) THEN <<TRUE, "">>
  ELSE IF Lower(to_phase) \notin get_phase_config(from_phase).allowed_next
    THEN <<FALSE, "Invalid transition">>
  ELSE <<TRUE, "">>

\* validate_signal_for_phase that accepts the four statuses in every phase
validate_signal_for_phase_any(phase_str, signal_status) ==
  IF get_phase_config(phase_str) = NoConfig THEN <<TRUE, "Unknown phase">>
  ELSE <<TRUE, "">>

\* validate_signal_for_phase comparing the status as written
validate_signal_for_phase_case_sensitive(phase_str, signal_status) ==
  IF get_phase_config(phase_str) = NoConfig THEN <<TRUE, "Unknown phase">>
  ELSE IF signal_status \notin get_phase_config(phase_str).allowed_signals
    THEN <<FALSE, "Signal not allowed in phase">>
  ELSE <<TRUE, "">>

\* validate_signal_for_phase: <<is_valid, error kind>>
validate_signal_for_phase(phase_str, signal_status) ==
  IF get_phase_config(phase_str) = NoConfig THEN <<TRUE, "Unknown phase">>
  ELSE IF Lower(signal_status) \notin get_phase_config(phase_str).allowed_signals
    THEN <<FALSE, "Signal not allowed in phase">>
  ELSE <<TRUE, "">>

\* is_iteration_limit_exceeded refusing the count that is at the limit
is_iteration_limit_exceeded_at_limit(phase_str, iteration_count) ==
  IF get_phase_config(phase_str) = NoConfig THEN <<FALSE, 0>>
  ELSE <<iteration_count >= get_phase_config(phase_str).max_iterations,
         get_phase_config(phase_str).max_iterations>>

\* is_iteration_limit_exceeded: <<is_exceeded, max_allowed>>
is_iteration_limit_exceeded(phase_str, iteration_count) ==
  IF get_phase_config(phase_str) = NoConfig THEN <<FALSE, 0>>
  ELSE <<iteration_count > get_phase_config(phase_str).max_iterations,
         get_phase_config(phase_str).max_iterations>>

(***************************************************************************)
(* worker/signals.py                                                       *)
(***************************************************************************)
SignalStatus == {"continue", "done", "blocked", "waiting"}

\* the Signal dataclass
Signal(status, summary, reason, needs, waiting_for, phase) ==
  [status |-> status, summary |-> summary, reason |-> reason,
   needs |-> needs, waiting_for |-> waiting_for, phase |-> phase]

\* Contents of _signal.json.  kind: "missing" (no file), "garbage" (text that
\* is not JSON), "blank" (a file that is empty or holds only white space),
\* "falsy" (the empty object {}), "zero" (another JSON value that Python
\* treats as false: 0, false, null, [], ""), "nonobj" (any other JSON value
\* that is not an object), "object" (a JSON object with at least one key; a
\* field equal to None is an absent key).
RawFile(kind, status, summary, reason, needs, for, phase) ==
  [kind |-> kind, status |-> status, summary |-> summary, reason |-> reason,
   needs |-> needs, for |-> for, phase |-> phase]

EmptyObject == RawFile("falsy", None, None, None, None, None, None)
MissingFile == RawFile("missing", None, None, None, None, None, None)
GarbageFile == RawFile("garbage", None, None, None, None, None, None)
NonObjectFile == RawFile("nonobj", None, None, None, None, None, None)
ZeroFile == RawFile("zero", None, None, None, None, None, None)
BlankFile == RawFile("blank", None, None, None, None, None, None)

\* a clear_signal_file that creates the file when it is missing and leaves an
\* existing one as it is
clear_signal_file_creates_only(file) ==
  <<IF file.kind = "missing" THEN EmptyObject ELSE file,
    IF file.kind \in {"missing", "blank"} \/ file = EmptyObject THEN MissingFile
    ELSE file>>

\* clear_signal_file: <<new file content, returned previous content>>;
\* the returned text is the old content unless it was absent, blank or {}
clear_signal_file(file) ==
  <<EmptyObject,
    IF file.kind \in {"missing", "blank"} \/ file = EmptyObject THEN MissingFile
    ELSE file>>

\* an empty signal taken for a crash of the agent
read_empty_blocked(file) ==
  Signal("blocked", None, "Empty signal file", "investigation", None, None)

\* `if not data: return Signal(status=SignalStatus.CONTINUE)`
read_empty(file) == Signal("continue", None, None, None, None, None)

read_signal_file(file) ==
  IF file.kind = "missing" THEN
    Signal("blocked", None, "Signal file not created", "investigation", None, None)
  ELSE IF file.kind \in {"garbage", "blank"} THEN
    Signal("blocked", None, "Invalid signal JSON", "investigation", None, None)
  ELSE IF file.kind \in {"falsy", "zero"} THEN
    read_empty(file)
  ELSE IF file.kind = "nonobj" \/ file.status = NonStr THEN
    \* AttributeError from data.get / .lower(), caught by `except Exception`
    Signal("blocked", None, "Failed to read signal", "investigation", None, None)
  ELSE IF file.status = None \/ Lower(file.status) \notin SignalStatus THEN
    Signal("blocked", None, "Invalid signal status", "investigation", None, None)
  ELSE
    Signal(Lower(file.status), file.summary, file.reason, file.needs,
           file.for, file.phase)

\* a to_dict that writes waiting_for under its own name, which
\* read_signal_file does not read
to_dict_waiting_for(signal) ==
  [status |-> signal.status, summary |-> signal.summary, reason |-> signal.reason,
   needs |-> signal.needs, for |-> None, phase |-> signal.phase]

\* Signal.to_dict: the wire dictionary, waiting_for under the key "for"
to_dict(signal) ==
  [status |-> signal.status, summary |-> signal.summary, reason |-> signal.reason,
   needs |-> signal.needs, for |-> signal.waiting_for, phase |-> signal.phase]

\* json.dumps of a wire dictionary written to _signal.json (None is written
\* as null, which data.get reads like an absent key)
json_dumps(dict) ==
  RawFile("object", dict.status, dict.summary, dict.reason, dict.needs,
          dict.for, dict.phase)

(***************************************************************************)
(* signals.py: the earlier codec, whose Signal carries next_state and      *)
(* context instead of phase                                                *)
(***************************************************************************)
LegacySignal(status, summary, reason, needs, waiting_for, next_state, context) ==
  [status |-> status, summary |-> summary, reason |-> reason, needs |-> needs,
   waiting_for |-> waiting_for, next_state |-> next_state, context |-> context]

\* the earlier read_signal_file passing an unknown status on as CONTINUE
legacy_read_signal_file_lenient(file) ==
  LegacySignal("continue", None, None, None, None, None, None)

\* read_signal_file of signals.py; the files modelled hold no next_state and
\* no context key
legacy_read_signal_file(file) ==
  IF file.kind = "missing" THEN
    LegacySignal("blocked", None, "Signal file not created", "investigation",
                 None, None, None)
  ELSE IF file.kind \in {"garbage", "blank"} THEN
    LegacySignal("blocked", None, "Invalid signal JSON", "investigation",
                 None, None, None)
  ELSE IF file.kind \in {"falsy", "zero"} THEN
    LegacySignal("blocked", None, "Empty signal file - Claude may have crashed",
                 "investigation", None, None, None)
  ELSE IF file.kind = "nonobj" \/ file.status = NonStr THEN
    LegacySignal("blocked", None, "Failed to read signal", "investigation",
                 None, None, None)
  ELSE IF file.status = None \/ Lower(file.status) \notin SignalStatus THEN
    LegacySignal("blocked", None, "Invalid signal status", "investigation",
                 None, None, None)
  ELSE
    LegacySignal(Lower(file.status), file.summary, file.reason, file.needs,
                 file.for, None, None)

(***************************************************************************)
(* worker/signal_history.py: the ledger is the sequence of the lines of    *)
(* _signal_history.jsonl (the empty sequence: no file)                     *)
(***************************************************************************)
\* a line of the file: a JSON entry (line = "json"), a blank line or a line
\* that is not JSON
SignalHistoryEntry(iteration, phase, signal) ==
  [line |-> "json", iteration |-> iteration, phase |-> phase,
   status |-> signal.status, summary |-> signal.summary, reason |-> signal.reason,
   needs |-> signal.needs, for |-> signal.waiting_for]

BlankLine ==
  [line |-> "blank", iteration |-> 0, phase |-> None, status |-> None,
   summary |-> None, reason |-> None, needs |-> None, for |-> None]

GarbageLine ==
  [line |-> "garbage", iteration |-> 0, phase |-> None, status |-> None,
   summary |-> None, reason |-> None, needs |-> None, for |-> None]

\* record_signal that rewrites the file with the new entry alone
record_signal_truncating(history, signal, iteration, phase_from_overview) ==
  <<SignalHistoryEntry(iteration,
                       IF Truthy(signal.phase) THEN signal.phase
                       ELSE phase_from_overview,
                       signal)>>

\* a record_signal that prefers the overview's phase to the signal's own
record_signal_overview_first(history, signal, iteration, phase_from_overview) ==
  Append(history,
         SignalHistoryEntry(iteration,
                            IF Truthy(phase_from_overview) THEN phase_from_overview
                            ELSE signal.phase,
                            signal))

record_signal(history, signal, iteration, phase_from_overview) ==
  Append(history,
         SignalHistoryEntry(iteration,
                            IF Truthy(signal.phase) THEN signal.phase
                            ELSE phase_from_overview,
                            signal))

\* get_phase_iteration_count raises AttributeError (.lower() on a non-string)
\* when the file exists and the asked phase or a recorded phase is not a string
get_phase_iteration_count_raises(history, phase) ==
  /\ Len(history) > 0
  /\ \/ phase = NonStr
     \/ \E i \in DOMAIN history :
          history[i].line = "json" /\ history[i].phase = NonStr

get_phase_iteration_count(history, phase) ==
  Cardinality({i \in DOMAIN history :
                 /\ history[i].line = "json"
                 /\ Truthy(history[i].phase)
                 /\ Lower(history[i].phase) = Lower(phase)})

\* a line read_signal_history turns into an entry
IsEntry(line) == line.line = "json"

\* read_signal_history: the entries of the file in the order of its lines,
\* blank lines and lines that are not JSON left out
read_signal_history(history) == SelectSeq(history, IsEntry)

(***************************************************************************)
(* _overview.md: whether the file exists, the value of its "Phase:" line   *)
(* (None: no such line), the value of its "Total Iterations:" line and the *)
(* value of its "Working Dir:" line (None: no such line)                   *)
(***************************************************************************)
Overview(exists, phase, total) ==
  [exists |-> exists, phase |-> phase, total |-> total, working_dir |-> None]

\* the same overview with a "Working Dir:" line
WithWorkingDir(overview, dir) == [overview EXCEPT !.working_dir = dir]

NoOverview == Overview(FALSE, None, 0)

\* worker/runner.py extract_phase
extract_phase(overview) == IF overview.exists THEN overview.phase ELSE None

\* worker/runner.py increment_total_iterations (the file after the call)
increment_total_iterations(overview) ==
  IF overview.exists THEN [overview EXCEPT !.total = overview.total + 1]
  ELSE overview

\* update_phase(session_path, phase): rewrites the Phase value of an existing
\* overview; <<updated, overview after the call>>
update_phase(overview, phase) ==
  IF overview.exists THEN <<TRUE, [overview EXCEPT !.phase = phase]>>
  ELSE <<FALSE, overview>>

(***************************************************************************)
(* main.py validate_and_process_signal                                     *)
(***************************************************************************)
\* the reason text of the budget override, which quotes max_allowed
ExceededReason(max_allowed) ==
  CASE max_allowed = 3 -> "exceeded 3 iteration limit"
    [] max_allowed = 5 -> "exceeded 5 iteration limit"
    [] max_allowed = 10 -> "exceeded 10 iteration limit"
    [] max_allowed = 20 -> "exceeded 20 iteration limit"
    [] max_allowed = 100 -> "exceeded 100 iteration limit"
    [] OTHER -> "exceeded iteration limit"

Blocked(phase, reason, needs) == Signal("blocked", None, reason, needs, None, phase)

\* a gate without the status test: every phase change out of a gated phase passes
gate_blocks_never(current_phase, status) == FALSE

\* the gate test: the current phase requires a gate and the status is not waiting
gate_blocks(current_phase, status) ==
  /\ get_phase_config(current_phase) # NoConfig
  /\ get_phase_config(current_phase).requires_gate
  /\ status # "waiting"

\* validate_and_process_signal writing the new phase before it validates the
\* transition
validate_and_process_signal_commit_first(signal, current_phase, iteration, history, overview) ==
  LET history1 == record_signal(history, signal, iteration, current_phase)
      signal_phase == IF Truthy(signal.phase) THEN signal.phase ELSE current_phase
      validation_phase == IF Truthy(current_phase) THEN current_phase ELSE signal_phase
      count == get_phase_iteration_count(history1, signal_phase)
      Out(raised, sig, ov, wrote) ==
        [raised |-> raised, signal |-> sig, history |-> history1,
         overview |-> ov, wrote |-> wrote]
  IN
  IF get_phase_config_raises(validation_phase) THEN
    Out(TRUE, signal, overview, None)
  ELSE IF ~validate_signal_for_phase(validation_phase, signal.status)[1] THEN
    Out(FALSE, Blocked(signal_phase, "Invalid signal", "investigation"), overview, None)
  ELSE IF Truthy(signal_phase)
          /\ get_phase_iteration_count_raises(history1, signal_phase) THEN
    Out(TRUE, signal, overview, None)
  ELSE IF Truthy(signal_phase)
          /\ is_iteration_limit_exceeded(signal_phase, count)[1] THEN
    Out(FALSE,
        Blocked(signal_phase,
                ExceededReason(is_iteration_limit_exceeded(signal_phase, count)[2]),
                "investigation"),
        overview, None)
  ELSE IF /\ Truthy(signal.phase) /\ Truthy(current_phase)
          /\ Lower(signal.phase) # Lower(current_phase) THEN
    IF gate_blocks(current_phase, signal.status) THEN
      Out(FALSE,
          Blocked(current_phase, "requires human approval before transitioning",
                  "human_decision"),
          overview, None)
    ELSE IF ~validate_transition(current_phase, signal.phase)[1] THEN
      Out(FALSE,
          Blocked(current_phase, validate_transition(current_phase, signal.phase)[2],
                  "investigation"),
          update_phase(overview, signal.phase)[2], signal.phase)
    ELSE Out(FALSE, signal, update_phase(overview, signal.phase)[2], signal.phase)
  ELSE Out(FALSE, signal, overview, None)

\* Result: raised (an exception left the function), the signal returned, the
\* ledger and the overview after the call, and the value handed to
\* update_phase (None: update_phase was not called).
validate_and_process_signal(signal, current_phase, iteration, history, overview) ==
  LET history1 == record_signal(history, signal, iteration, current_phase)
      signal_phase == IF Truthy(signal.phase) THEN signal.phase ELSE current_phase
      validation_phase == IF Truthy(current_phase) THEN current_phase ELSE signal_phase
      count == get_phase_iteration_count(history1, signal_phase)
      Out(raised, sig, ov, wrote) ==
        [raised |-> raised, signal |-> sig, history |-> history1,
         overview |-> ov, wrote |-> wrote]
  IN
  IF get_phase_config_raises(validation_phase) THEN
    Out(TRUE, signal, overview, None)
  ELSE IF ~validate_signal_for_phase(validation_phase, signal.status)[1] THEN
    Out(FALSE, Blocked(signal_phase, "Invalid signal", "investigation"), overview, None)
  ELSE IF Truthy(signal_phase)
          /\ get_phase_iteration_count_raises(history1, signal_phase) THEN
    Out(TRUE, signal, overview, None)
  ELSE IF Truthy(signal_phase)
          /\ is_iteration_limit_exceeded(signal_phase, count)[1] THEN
    Out(FALSE,
        Blocked(signal_phase,
                ExceededReason(is_iteration_limit_exceeded(signal_phase, count)[2]),
                "investigation"),
        overview, None)
  ELSE IF /\ Truthy(signal.phase) /\ Truthy(current_phase)
          /\ Lower(signal.phase) # Lower(current_phase) THEN
    IF gate_blocks(current_phase, signal.status) THEN
      Out(FALSE,
          Blocked(current_phase, "requires human approval before transitioning",
                  "human_decision"),
          overview, None)
    ELSE IF ~validate_transition(current_phase, signal.phase)[1] THEN
      Out(FALSE,
          Blocked(current_phase, validate_transition(current_phase, signal.phase)[2],
                  "investigation"),
          overview, None)
    ELSE Out(FALSE, signal, update_phase(overview, signal.phase)[2], signal.phase)
  ELSE Out(FALSE, signal, overview, None)

(***************************************************************************)
(* worker/runner.py: ExecutionResult and the retry wrapper                 *)
(***************************************************************************)
ExecutionStatus == {"success", "timeout", "failure", "retry_exhausted"}

ExecutionResult(status, stdout, stderr, returncode, att, log_file) ==
  [status |-> status, stdout |-> stdout, stderr |-> stderr,
   returncode |-> returncode, attempt |-> att, log_file |-> log_file]

\* `result = None` before the first attempt
NoResult == ExecutionResult(None, None, None, None, 0, None)

\* run_claude_once falling back to an agent for every phase
run_claude_once_never_raises(overview) == FALSE

\* run_claude_once raises ValueError before launching anything when the
\* overview exists and its phase has no agent
run_claude_once_raises(overview) ==
  overview.exists /\ get_agent_for_phase(extract_phase(overview)) = None

\* SamocodeConfig and the command line: the configured repository path
\* (None only for the mock configuration of the tests), --dive and --task
Config(repo_path, initial_dive, initial_task) ==
  [repo_path |-> repo_path, initial_dive |-> initial_dive,
   initial_task |-> initial_task]

\* run_claude_once raises ValueError when no repository path is configured
repo_path_missing(config) == config.repo_path = None

\* a retry wrapper that hands --dive/--task to every attempt of iteration 1
initial_instructions_every_attempt(config, iteration, att) ==
  /\ iteration = 1
  /\ Truthy(config.initial_dive) \/ Truthy(config.initial_task)

\* main hands --dive/--task to run_claude_with_retry in iteration 1 only,
\* run_claude_with_retry hands them to run_claude_once in attempt 1 only, and
\* build_session_context adds the instructions when one of them is truthy
initial_instructions(config, iteration, att) ==
  /\ iteration = 1
  /\ att = 1
  /\ Truthy(config.initial_dive) \/ Truthy(config.initial_task)

\* a working directory taken from the 'Working Dir:' line of the overview
working_dir_from_overview(overview, config) ==
  IF overview.exists /\ overview.working_dir # None THEN overview.working_dir
  ELSE config.repo_path

\* the working directory of the process: `working_dir = config.repo_path`
working_dir_for(overview, config) == config.repo_path

\* what run_claude_once launches: agent, phase, new-session flag, working
\* directory of the process and whether the context holds the initial
\* instructions
Launch(overview, att, iteration, config) ==
  IF ~overview.exists
    THEN [attempt |-> att, agent |-> "init-agent", phase |-> "init", new |-> TRUE,
          cwd |-> working_dir_for(overview, config),
          initial |-> initial_instructions(config, iteration, att)]
    ELSE [attempt |-> att, agent |-> get_agent_for_phase(extract_phase(overview)),
          phase |-> extract_phase(overview), new |-> FALSE,
          cwd |-> working_dir_for(overview, config),
          initial |-> initial_instructions(config, iteration, att)]

\* a retry loop that retries a FAILURE but gives up on a TIMEOUT
retry_continues_failure_only(res, att, retries) ==
  res.status = "failure" /\ att < retries

\* run_claude_with_retry, after an attempt returned res: go on to the next attempt?
retry_continues(res, att, retries) == res.status # "success" /\ att < retries

\* a retry wrapper that reports the first attempt's payload when exhausted
retry_returns_first(attempts, retries) ==
  IF attempts = <<>> THEN
    ExecutionResult("retry_exhausted", "", "No attempts made", None, 0, None)
  ELSE IF attempts[Len(attempts)].status = "success" THEN attempts[Len(attempts)]
  ELSE ExecutionResult("retry_exhausted", attempts[1].stdout, attempts[1].stderr,
                       attempts[1].returncode, retries, attempts[1].log_file)

\* run_claude_with_retry: the value returned once the loop is left, given the
\* results of the attempts made
retry_returns(attempts, retries) ==
  IF attempts = <<>> THEN
    ExecutionResult("retry_exhausted", "", "No attempts made", None, 0, None)
  ELSE IF attempts[Len(attempts)].status = "success" THEN attempts[Len(attempts)]
  ELSE ExecutionResult("retry_exhausted",
                       attempts[Len(attempts)].stdout,
                       attempts[Len(attempts)].stderr,
                       attempts[Len(attempts)].returncode,
                       retries,
                       attempts[Len(attempts)].log_file)

(***************************************************************************)
(* Bounds and input sets                                                   *)
(***************************************************************************)
\* iterations per orchestrator run
MaxIterations == 2
\* largest configured SAMOCODE_MAX_RETRIES
MaxRetries == 3
\* lines a child process writes to its stdout
MaxLines == 2

\* what one agent process does to the session files: the content it leaves in
\* _signal.json and the _overview.md it leaves (either can be left untouched)
Effect(file, overview) == [file |-> file, overview |-> overview]
NoEffect(file, overview) == Effect(file, overview)

\* the agent leaves _overview.md alone or (re)writes its Phase line
AgentOverviewWrites(overview) ==
  {overview,
   Overview(TRUE, "investigation", overview.total),
   WithWorkingDir(Overview(TRUE, "bogus", overview.total), "/agent/dir")}

\* phase values an agent puts in its signal
AgentSignalPhases == {None, NonStr, "bogus", "PLANNING"} \cup Phase

\* what an agent process that exits with code 0 can leave in _signal.json
AgentSignals(file) ==
  {file, MissingFile, GarbageFile, NonObjectFile, EmptyObject,
   RawFile("object", "bogus", None, None, None, None, "planning"),
   RawFile("object", NonStr, None, None, None, None, None),
   RawFile("object", None, "s", None, None, None, "testing"),
   RawFile("object", "Waiting", "s", "r", "n", "f", None)}
  \cup {RawFile("object", st, None, None, None, None, ph) :
          st \in SignalStatus, ph \in AgentSignalPhases}

AgentEffects(file, overview) ==
  {Effect(f, o) : f \in AgentSignals(file), o \in AgentOverviewWrites(overview)}

\* what an agent process that fails or is killed can have done before
FailedAgentEffects(file, overview) ==
  {NoEffect(file, overview),
   Effect(RawFile("object", "done", "s", None, None, None, "done"), overview),
   Effect(RawFile("object", "continue", None, None, None, None, "planning"),
          WithWorkingDir(Overview(TRUE, "bogus", overview.total), "/agent/dir")),
   Effect(GarbageFile, Overview(TRUE, "investigation", overview.total))}

\* a stubbed run_claude_once touches no file
StubEffects(file, overview) == {NoEffect(file, overview)}

\* outcomes of one process execution (_execute_process); launched = FALSE
\* when Popen itself failed and no agent ran
Outcome(status, stdout, stderr, returncode, log_file, launched) ==
  [status |-> status, stdout |-> stdout, stderr |-> stderr,
   returncode |-> returncode, log_file |-> log_file, launched |-> launched]

\* every execution gets a log file of its own
LogFile(att) == "log" \o ToString(att)

LoopOutcomes(att) ==
  {Outcome("success", "out", "", "0", LogFile(att), TRUE),
   Outcome("failure", "out", "err", "1", LogFile(att), TRUE),
   Outcome("failure", "", "launch error", None, None, FALSE),
   Outcome("timeout", "", "Timeout", None, LogFile(att), TRUE)}

\* results a stubbed run_claude_once hands to run_claude_with_retry
StubOutcomes(att) ==
  {Outcome("success", out, "", "0", LogFile(att), TRUE) : out \in {"a", "b"}}
  \cup {Outcome("failure", out, "e", rc, LogFile(att), TRUE) :
          out \in {"a", "b"}, rc \in {"1", "2"}}
  \cup {Outcome("timeout", "", "Timeout", None, LogFile(att), TRUE)}

\* a ledger of n earlier entries for one phase
RECURSIVE Prior(_, _)
Prior(phase, n) ==
  IF n = 0 THEN <<>>
  ELSE Append(Prior(phase, n - 1),
              SignalHistoryEntry(n, phase,
                                 Signal("continue", None, None, None, None, None)))

\* the ledger a run leaves behind that recorded a signal with a non-string
\* phase after n entries for one phase
Poisoned(phase, n) ==
  Append(Prior(phase, n),
         SignalHistoryEntry(n + 1, NonStr,
                            Signal("continue", None, None, None, None, NonStr)))

\* sessions an orchestrator run can find on disk: overview and ledger
Session(overview, history) == [overview |-> overview, history |-> history]

Sessions ==
  {Session(NoOverview, <<>>)}
  \cup {Session(Overview(TRUE, ph, 0), <<>>) :
          ph \in Phase \cup {None, "bogus", "Requirements", "Done"}}
  \cup {Session(Overview(TRUE, ph, PHASE_CONFIGS[ph].max_iterations + d),
                Prior(ph, PHASE_CONFIGS[ph].max_iterations + d)) :
          ph \in {"testing", "done", "requirements"}, d \in {-1, 1}}
  \cup {Session(Overview(TRUE, "testing", 22), Poisoned("testing", 21)),
        Session(Overview(TRUE, "planning", 1), Poisoned("planning", 0))}

\* the runs explored: every session with one attempt per iteration and no
\* initial instructions, the planning and the done session with every retry
\* setting and a --dive topic, and a fresh session with --dive and --task
Run(session, retries, config) ==
  [session |-> session, retries |-> retries, config |-> config]

Runs ==
  {Run(s, 1, Config("/repo", None, None)) : s \in Sessions}
  \cup {Run(s, r, Config("/repo", "topic", None)) :
          s \in {Session(Overview(TRUE, "planning", 0), <<>>),
                 Session(Overview(TRUE, "done", 0), <<>>)},
          r \in 0..MaxRetries}
  \cup {Run(Session(NoOverview, <<>>), 1, Config("/repo", "topic", "task"))}

(***************************************************************************)
(* main.py: the orchestrator loop                                          *)
(***************************************************************************)
VARIABLES pc, max_retries, iteration, phase, attempt, attempts, launches,
          result, signal, sigfile, overview, history, wrote,
          notifications, exit_code, config, proc, decoded, call

vars == <<pc, max_retries, iteration, phase, attempt, attempts, launches,
          result, signal, sigfile, overview, history, wrote,
          notifications, exit_code, config, proc, decoded, call>>

\* one call of a function of worker/phases.py or worker/signal_history.py:
\* its name, its arguments and, once it has returned, its result
Call(fn, args, ret) == [fn |-> fn, args |-> args, ret |-> ret]
Pending == "~pending"
NoCall == Call(None, <<>>, Pending)

\* the child process of one execution: where _execute_process stands, the
\* state of the child (none, running, exited, killed, reaped), its exit code,
\* whether the deadline has passed, what waits in the stdout pipe (empty, an
\* unterminated partial line, a whole line) and the number of lines read
Proc(at, child, returncode, expired, pipe, stdout) ==
  [at |-> at, child |-> child, returncode |-> returncode, expired |-> expired,
   pipe |-> pipe, stdout |-> stdout]

\* no execution going on
NoProc == Proc("idle", "none", None, FALSE, "empty", 0)

NoSignal == Signal(None, None, None, None, None, None)

\* what the orchestrator can find in _signal.json when it starts: nothing, or
\* what an earlier run on the session left (a file cut short, a cleared file,
\* the signal that run stopped on)
LeftoverFiles ==
  {MissingFile, BlankFile, EmptyObject,
   RawFile("object", "waiting", "s", None, None, "f", "testing")}

Init ==
  /\ pc = "loop"
  /\ iteration = 0
  /\ phase = None
  /\ attempt = 0
  /\ attempts = <<>>
  /\ launches = <<>>
  /\ result = NoResult
  /\ signal = NoSignal
  /\ sigfile \in LeftoverFiles
  /\ \E r \in Runs :
       /\ max_retries = r.retries
       /\ config = r.config
       /\ overview = r.session.overview
       /\ history = r.session.history
  /\ wrote = None
  /\ notifications = <<>>
  /\ exit_code = None
  /\ proc = NoProc
  /\ call = NoCall
  /\ decoded = NoSignal

\* `except Exception` in main: notify_error, sys.exit(1)
Crashed ==
  /\ pc' = "exited"
  /\ notifications' = Append(notifications, "error")
  /\ exit_code' = "1"

\* a loop that reads the overview's phase in its first iteration only and
\* afterwards remembers the phase it last wrote
StartIteration_cached ==
  /\ pc = "loop"
  /\ iteration < MaxIterations
  /\ iteration' = iteration + 1
  /\ overview' = increment_total_iterations(overview)
  /\ phase' = IF iteration = 0 THEN extract_phase(overview')
              ELSE IF wrote # None THEN wrote ELSE phase
  /\ sigfile' = clear_signal_file(sigfile)[1]
  /\ pc' = "retry"
  /\ attempt' = 1
  /\ attempts' = <<>>
  /\ launches' = <<>>
  /\ result' = NoResult
  /\ signal' = NoSignal
  /\ wrote' = None
  /\ UNCHANGED <<call, config, proc, decoded, max_retries, history, notifications, exit_code>>

\* top of `while True` up to the call of run_claude_with_retry
StartIteration ==
  /\ pc = "loop"
  /\ iteration < MaxIterations
  /\ iteration' = iteration + 1
  /\ overview' = increment_total_iterations(overview)
  /\ phase' = extract_phase(overview')
  /\ sigfile' = clear_signal_file(sigfile)[1]
  /\ pc' = "retry"
  /\ attempt' = 1
  /\ attempts' = <<>>
  /\ launches' = <<>>
  /\ result' = NoResult
  /\ signal' = NoSignal
  /\ wrote' = None
  /\ UNCHANGED <<call, config, proc, decoded, max_retries, history, notifications, exit_code>>

\* one pass of the `for attempt` loop: run_claude_once (the real one, or the
\* patched one of the tests) and what follows it
Attempt(stubbed) ==
  /\ pc = "retry"
  /\ attempt <= max_retries
  /\ IF run_claude_once_raises(overview) \/ repo_path_missing(config) THEN
       /\ Crashed
       /\ UNCHANGED <<call, config, proc, decoded, max_retries, iteration, phase, attempt, attempts, launches,
                      result, signal, sigfile, overview, history, wrote>>
     ELSE
       \E o \in (IF stubbed THEN StubOutcomes(attempt) ELSE LoopOutcomes(attempt)) :
         \E e \in (IF stubbed THEN StubEffects(sigfile, overview)
                   ELSE IF ~o.launched THEN {NoEffect(sigfile, overview)}
                   ELSE IF o.status = "success" THEN AgentEffects(sigfile, overview)
                   ELSE FailedAgentEffects(sigfile, overview)) :
           LET res == ExecutionResult(o.status, o.stdout, o.stderr, o.returncode,
                                      attempt, o.log_file)
           IN
           /\ launches' = IF o.launched THEN Append(launches, Launch(overview, attempt, iteration, config))
                          ELSE launches
           /\ sigfile' = e.file
           /\ overview' = e.overview
           /\ attempts' = Append(attempts, res)
           /\ IF retry_continues(res, attempt, max_retries)
                THEN /\ attempt' = attempt + 1
                     /\ UNCHANGED <<pc, result>>
                ELSE /\ result' = retry_returns(attempts', max_retries)
                     /\ pc' = "returned"
                     /\ UNCHANGED attempt
           /\ UNCHANGED <<call, config, proc, decoded, max_retries, iteration, phase, signal, history, wrote,
                          notifications, exit_code>>

LoopAttempt == Attempt(FALSE)

\* max_retries < 1: the `for` loop body never runs
NoAttempts ==
  /\ pc = "retry"
  /\ attempt > max_retries
  /\ attempts = <<>>
  /\ result' = retry_returns(attempts, max_retries)
  /\ pc' = "returned"
  /\ UNCHANGED <<call, config, proc, decoded, max_retries, iteration, phase, attempt, attempts, launches,
                 signal, sigfile, overview, history, wrote, notifications, exit_code>>

\* a loop that answers a failed runner result with another iteration
HandleFailure_retry ==
  /\ pc = "returned"
  /\ result.status # "success"
  /\ notifications' = notifications
  /\ pc' = "loop"
  /\ UNCHANGED <<call, config, proc, decoded, max_retries, iteration, phase, attempt, attempts, launches,
                 result, signal, sigfile, overview, history, wrote, exit_code>>

\* result.status != SUCCESS: notify_error, break, main returns
HandleFailure ==
  /\ pc = "returned"
  /\ result.status # "success"
  /\ notifications' = Append(notifications, "error")
  /\ pc' = "exited"
  /\ exit_code' = "0"
  /\ UNCHANGED <<call, config, proc, decoded, max_retries, iteration, phase, attempt, attempts, launches,
                 result, signal, sigfile, overview, history, wrote>>

\* the notification main sends for a dispatched status (None: none)
Notification(status) ==
  CASE status = "done" -> "complete"
    [] status = "blocked" -> "blocked"
    [] status = "waiting" -> "waiting"
    [] OTHER -> None

\* result.status == SUCCESS: read_signal_file, validate_and_process_signal, dispatch
ProcessSignal ==
  /\ pc = "returned"
  /\ result.status = "success"
  /\ LET v == validate_and_process_signal(read_signal_file(sigfile), phase,
                                          iteration, history, overview)
     IN
     /\ history' = v.history
     /\ overview' = v.overview
     /\ wrote' = v.wrote
     /\ IF v.raised THEN
          /\ Crashed
          /\ UNCHANGED signal
        ELSE
          /\ signal' = v.signal
          /\ IF v.signal.status = "continue" THEN
               /\ pc' = "loop"
               /\ UNCHANGED <<notifications, exit_code>>
             ELSE
               /\ pc' = "exited"
               /\ exit_code' = "0"
               /\ notifications' =
                    IF Notification(v.signal.status) = None THEN notifications
                    ELSE Append(notifications, Notification(v.signal.status))
  /\ UNCHANGED <<call, config, proc, decoded, max_retries, iteration, phase, attempt, attempts, launches,
                 result, sigfile>>

Next ==
  \/ StartIteration
  \/ LoopAttempt
  \/ NoAttempts
  \/ HandleFailure
  \/ ProcessSignal

Spec == Init /\ [][Next]_vars

(***************************************************************************)
(* run_claude_with_retry over a stubbed run_claude_once, as in             *)
(* tests/test_runner.py TestRunClaudeWithRetry                             *)
(***************************************************************************)
InitRetry ==
  /\ pc = "retry"
  /\ max_retries \in 0..MaxRetries
  /\ iteration = 1
  /\ phase = "planning"
  /\ attempt = 1
  /\ attempts = <<>>
  /\ launches = <<>>
  /\ result = NoResult
  /\ signal = NoSignal
  /\ sigfile = EmptyObject
  /\ overview = Overview(TRUE, "planning", 1)
  /\ history = <<>>
  /\ wrote = None
  /\ notifications = <<>>
  /\ exit_code = None
  /\ config = Config("/repo", None, None)
  /\ proc = NoProc
  /\ call = NoCall
  /\ decoded = NoSignal

StubAttempt == Attempt(TRUE)

NextRetry == StubAttempt \/ NoAttempts

SpecRetry == InitRetry /\ [][NextRetry]_vars

(***************************************************************************)
(* worker/runner.py _execute_process and stream_logs: one execution of the *)
(* child process, interleaved with the child and the clock                 *)
(***************************************************************************)
InitProc ==
  /\ pc = "exec"
  /\ max_retries = MaxRetries
  /\ iteration = 1
  /\ phase = "planning"
  /\ attempt \in 1..MaxRetries
  /\ attempts = <<>>
  /\ launches = <<>>
  /\ result = NoResult
  /\ signal = NoSignal
  /\ sigfile = EmptyObject
  /\ overview = Overview(TRUE, "planning", 1)
  /\ history = <<>>
  /\ wrote = None
  /\ notifications = <<>>
  /\ exit_code = None
  /\ config = Config("/repo", None, None)
  /\ proc = Proc("popen", "none", None, FALSE, "empty", 0)
  /\ call = NoCall
  /\ decoded = NoSignal

\* what an execution leaves alone
ProcFrame ==
  UNCHANGED <<call, max_retries, iteration, phase, attempt, attempts, launches, signal,
              sigfile, overview, history, wrote, notifications, exit_code,
              config, decoded>>

\* _execute_process returns res
ProcReturn(res, child, returncode) ==
  /\ result' = res
  /\ pc' = "returned"
  /\ proc' = [proc EXCEPT !.at = "done", !.child = child, !.returncode = returncode]

\* subprocess.Popen: the child starts, or Popen raises and FAILURE is returned
Popen ==
  /\ proc.at = "popen"
  /\ \/ /\ proc' = [proc EXCEPT !.at = "open_log", !.child = "running"]
        /\ UNCHANGED <<pc, result>>
     \/ ProcReturn(ExecutionResult("failure", "", "launch error", None, attempt, None),
                   "none", None)
  /\ ProcFrame

\* stream_logs up to its loop: the deadline is set, the log file is opened
\* (which may raise OSError)
OpenLog ==
  /\ proc.at = "open_log"
  /\ \E ok \in BOOLEAN :
       proc' = [proc EXCEPT !.at = IF ok THEN "top" ELSE "except"]
  /\ UNCHANGED <<pc, result>>
  /\ ProcFrame

\* top of the loop: remaining <= 0 raises TimeoutExpired
CheckDeadline ==
  /\ proc.at = "top"
  /\ proc' = [proc EXCEPT !.at = IF proc.expired THEN "timeout" ELSE "poll"]
  /\ UNCHANGED <<pc, result>>
  /\ ProcFrame

\* process.poll(): an exited child ends the loop
Poll ==
  /\ proc.at = "poll"
  /\ proc' = [proc EXCEPT !.at = IF proc.child = "exited" THEN "drain" ELSE "select"]
  /\ UNCHANGED <<pc, result>>
  /\ ProcFrame

\* select on the pipes for at most one second: a pipe with data or at end of
\* file is readable
Select ==
  /\ proc.at = "select"
  /\ proc' = [proc EXCEPT !.at = IF proc.pipe # "empty" \/ proc.child = "exited"
                                   THEN "readline" ELSE "top"]
  /\ UNCHANGED <<pc, result>>
  /\ ProcFrame

\* stream.readline(): returns at a newline or at end of file, and blocks on
\* an unterminated line of a running child
Readline ==
  /\ proc.at = "readline"
  /\ proc.pipe = "line" \/ proc.child = "exited"
  /\ proc' = [proc EXCEPT !.at = "top", !.pipe = "empty",
                          !.stdout = IF proc.pipe = "empty" THEN proc.stdout
                                     ELSE proc.stdout + 1]
  /\ UNCHANGED <<pc, result>>
  /\ ProcFrame

\* an execution that takes every exit of the child for a success
Drain_any_exit_succeeds ==
  /\ proc.at = "drain"
  /\ LET out == IF proc.pipe = "empty" THEN proc.stdout ELSE proc.stdout + 1
         res == ExecutionResult("success", LogFile(out), "", proc.returncode, attempt,
                                LogFile(attempt))
     IN /\ result' = res
        /\ pc' = "returned"
        /\ proc' = [proc EXCEPT !.at = "done", !.child = "reaped",
                                !.pipe = "empty", !.stdout = out]
  /\ ProcFrame

\* _drain_remaining, process.wait() and the SUCCESS / FAILURE return
Drain ==
  /\ proc.at = "drain"
  /\ LET out == IF proc.pipe = "empty" THEN proc.stdout ELSE proc.stdout + 1
         res == ExecutionResult(IF proc.returncode = "0" THEN "success" ELSE "failure",
                                LogFile(out), "", proc.returncode, attempt,
                                LogFile(attempt))
     IN /\ result' = res
        /\ pc' = "returned"
        /\ proc' = [proc EXCEPT !.at = "done", !.child = "reaped",
                                !.pipe = "empty", !.stdout = out]
  /\ ProcFrame

\* except TimeoutExpired: process.kill()
Kill ==
  /\ proc.at = "timeout"
  /\ proc' = [proc EXCEPT !.at = "timeout_wait",
                          !.child = IF proc.child = "running" THEN "killed"
                                    ELSE proc.child,
                          !.returncode = IF proc.child = "running" THEN "-9"
                                         ELSE proc.returncode]
  /\ UNCHANGED <<pc, result>>
  /\ ProcFrame

\* a timeout handler that returns after process.kill() without process.wait()
WaitTimeout_unreaped ==
  /\ proc.at = "timeout_wait"
  /\ ProcReturn(ExecutionResult("timeout", "", "Timeout", None, attempt,
                                LogFile(attempt)),
                proc.child, proc.returncode)
  /\ ProcFrame

\* except TimeoutExpired: process.wait() and the TIMEOUT return
WaitTimeout ==
  /\ proc.at = "timeout_wait"
  /\ ProcReturn(ExecutionResult("timeout", "", "Timeout", None, attempt,
                                LogFile(attempt)),
                "reaped", proc.returncode)
  /\ ProcFrame

\* except Exception: process.kill(), process.wait() and the FAILURE return
\* (the log file does not exist)
HandleException ==
  /\ proc.at = "except"
  /\ ProcReturn(ExecutionResult("failure", "", "error", None, attempt, None),
                "reaped",
                IF proc.child = "running" THEN "-9" ELSE proc.returncode)
  /\ ProcFrame

\* the steps of _execute_process
ProcStep ==
  \/ Popen
  \/ OpenLog
  \/ CheckDeadline
  \/ Poll
  \/ Select
  \/ Readline
  \/ Drain
  \/ Kill
  \/ WaitTimeout
  \/ HandleException

\* the clock passes the deadline
DeadlinePasses ==
  /\ proc.at \notin {"idle", "popen", "open_log", "done"}
  /\ ~proc.expired
  /\ proc' = [proc EXCEPT !.expired = TRUE]
  /\ UNCHANGED <<pc, result>>
  /\ ProcFrame

\* the child writes to its stdout: a piece of a line, or the rest of a line
ChildWrites ==
  /\ proc.child = "running"
  /\ proc.stdout < MaxLines
  /\ proc.pipe # "line"
  /\ \E next \in (IF proc.pipe = "empty" THEN {"partial", "line"} ELSE {"line"}) :
       proc' = [proc EXCEPT !.pipe = next]
  /\ UNCHANGED <<pc, result>>
  /\ ProcFrame

\* the child exits on its own
ChildExits ==
  /\ proc.child = "running"
  /\ \E rc \in {"0", "1"} :
       proc' = [proc EXCEPT !.child = "exited", !.returncode = rc]
  /\ UNCHANGED <<pc, result>>
  /\ ProcFrame

NextProc ==
  \/ ProcStep
  \/ DeadlinePasses
  \/ ChildWrites
  \/ ChildExits

SpecProc == InitProc /\ [][NextProc]_vars

\* the same execution with the runner's own steps and the clock going on:
\* _execute_process takes its next step whenever it has one, and the deadline
\* passes; nothing is assumed of the child, which may write or exit or not
SpecProcFair ==
  /\ SpecProc
  /\ WF_vars(ProcStep)
  /\ WF_vars(DeadlinePasses)

(***************************************************************************)
(* worker/runner.py run_claude_once called on its own, as                  *)
(* tests/test_runner.py TestRunClaudeOnce does, with any configuration     *)
(***************************************************************************)
\* session files found by the first call
OnceOverviews ==
  {NoOverview}
  \cup {WithWorkingDir(Overview(TRUE, ph, 0), d) :
          ph \in {"planning", "done", "bogus"}, d \in {None, "/agent/dir"}}

\* configurations: two repository paths, and the mock configuration whose
\* repo_path is None
OnceConfigs == {Config(p, None, None) : p \in {"/repo", "/other", None}}

InitOnce ==
  /\ pc = "once"
  /\ max_retries = MaxRetries
  /\ iteration = 1
  /\ attempt = 1
  /\ attempts = <<>>
  /\ launches = <<>>
  /\ result = NoResult
  /\ signal = NoSignal
  /\ sigfile = MissingFile
  /\ overview \in OnceOverviews
  /\ phase = extract_phase(overview)
  /\ history = <<>>
  /\ wrote = None
  /\ notifications = <<>>
  /\ exit_code = None
  /\ config \in OnceConfigs
  /\ proc = NoProc
  /\ call = NoCall
  /\ decoded = NoSignal

\* one call of run_claude_once: it raises, or launches a process that leaves
\* the session files as the agent likes
CallOnce ==
  /\ pc = "once"
  /\ IF run_claude_once_raises(overview) \/ repo_path_missing(config) THEN
       /\ pc' = "raised"
       /\ UNCHANGED <<launches, sigfile, overview, attempts, result>>
     ELSE
       \E o \in LoopOutcomes(attempt) :
         \E e \in (IF o.launched THEN FailedAgentEffects(sigfile, overview)
                   ELSE {NoEffect(sigfile, overview)}) :
           /\ launches' = IF o.launched
                            THEN Append(launches, Launch(overview, attempt, iteration, config))
                            ELSE launches
           /\ sigfile' = e.file
           /\ overview' = e.overview
           /\ result' = ExecutionResult(o.status, o.stdout, o.stderr, o.returncode,
                                        attempt, o.log_file)
           /\ attempts' = Append(attempts, result')
           /\ pc' = "called"
  /\ UNCHANGED <<call, config, proc, decoded, max_retries, iteration, phase, attempt,
                 signal, history, wrote, notifications, exit_code>>

\* the caller calls again
CallAgain ==
  /\ pc = "called"
  /\ attempt < max_retries
  /\ attempt' = attempt + 1
  /\ pc' = "once"
  /\ UNCHANGED <<call, config, proc, decoded, max_retries, iteration, phase, attempts,
                 launches, result, signal, sigfile, overview, history, wrote,
                 notifications, exit_code>>

NextOnce ==
  \/ CallOnce
  \/ CallAgain

SpecOnce == InitOnce /\ [][NextOnce]_vars

(***************************************************************************)
(* The signal codec on its own: any content of _signal.json decoded by     *)
(* either read_signal_file, and any Signal written and read back           *)
(***************************************************************************)
\* optional fields: absent, or one value
CodecFiles ==
  {MissingFile, GarbageFile, BlankFile, EmptyObject, ZeroFile, NonObjectFile}
  \cup {RawFile("object", st, su, re, ne, fo, ph) :
          st \in SignalStatus \cup {None, NonStr, "", "bogus", "DONE", "Waiting"},
          su \in {None, "s"}, re \in {None, "r"}, ne \in {None, "n"},
          fo \in {None, "f"}, ph \in {None, "planning"}}

CodecSignals ==
  {Signal(st, su, re, ne, wf, ph) :
     st \in SignalStatus,
     su \in {None, "s"}, re \in {None, "r"}, ne \in {None, "n"},
     wf \in {None, "f"}, ph \in {None, "planning"}}

InitCodec ==
  /\ pc = "codec"
  /\ \/ sigfile \in CodecFiles /\ signal = NoSignal
     \/ sigfile = EmptyObject /\ signal \in CodecSignals
  /\ decoded = NoSignal
  /\ max_retries = 1
  /\ iteration = 1
  /\ phase = None
  /\ attempt = 1
  /\ attempts = <<>>
  /\ launches = <<>>
  /\ result = NoResult
  /\ overview = NoOverview
  /\ history = <<>>
  /\ wrote = None
  /\ notifications = <<>>
  /\ exit_code = None
  /\ config = Config("/repo", None, None)
  /\ proc = NoProc
  /\ call = NoCall

CodecFrame ==
  UNCHANGED <<call, config, proc, max_retries, iteration, phase, attempt, attempts,
              launches, result, overview, history, wrote, notifications,
              exit_code>>

\* read_signal_file of worker/signals.py on the content found
Decode ==
  /\ pc = "codec"
  /\ signal = NoSignal
  /\ decoded' = read_signal_file(sigfile)
  /\ pc' = "decoded"
  /\ UNCHANGED <<sigfile, signal>>
  /\ CodecFrame

\* read_signal_file of signals.py on the content found
LegacyDecode ==
  /\ pc = "codec"
  /\ signal = NoSignal
  /\ decoded' = legacy_read_signal_file(sigfile)
  /\ pc' = "legacy_decoded"
  /\ UNCHANGED <<sigfile, signal>>
  /\ CodecFrame

\* a Signal written to the file as json.dumps(signal.to_dict())
Encode ==
  /\ pc = "codec"
  /\ signal # NoSignal
  /\ sigfile' = json_dumps(to_dict(signal))
  /\ pc' = "encoded"
  /\ UNCHANGED <<signal, decoded>>
  /\ CodecFrame

\* ... and read back
DecodeEncoded ==
  /\ pc = "encoded"
  /\ decoded' = read_signal_file(sigfile)
  /\ pc' = "round_trip"
  /\ UNCHANGED <<sigfile, signal>>
  /\ CodecFrame

NextCodec ==
  \/ Decode
  \/ LegacyDecode
  \/ Encode
  \/ DecodeEncoded

SpecCodec == InitCodec /\ [][NextCodec]_vars

(***************************************************************************)
(* The functions of worker/phases.py called on their own, as               *)
(* tests/test_phases.py does                                               *)
(***************************************************************************)
\* phase names handed to the functions: the eight names, each in another
\* letter case, no phase, and names of no phase
PhaseNames ==
  Phase
  \cup {"INIT", "Investigation", "Requirements", "PLANNING", "IMPLEMENTATION",
        "TESTING", "Quality", "Done"}
  \cup {None, "bogus", ""}

\* status strings handed to validate_signal_for_phase
StatusNames ==
  SignalStatus \cup {"CONTINUE", "Waiting", "BLOCKED", "DONE", "bogus", ""}

\* counts handed to is_iteration_limit_exceeded lie this close to the limit
MaxDelta == 2

\* the counts around the limit of a phase (around 0 when it has none)
CountsAround(phase_str) ==
  {n \in (get_phase_config(phase_str).max_iterations - MaxDelta)
         .. (get_phase_config(phase_str).max_iterations + MaxDelta) : n >= 0}
  \cup {0, 1000}

PhaseCalls ==
  {Call("validate_transition", <<f, t>>, Pending) : f \in PhaseNames, t \in PhaseNames}
  \cup {Call("validate_signal_for_phase", <<p, st>>, Pending) :
          p \in PhaseNames, st \in StatusNames}
  \cup UNION {{Call("is_iteration_limit_exceeded", <<p, n>>, Pending) :
                 n \in CountsAround(p)} : p \in PhaseNames}

InitPhases ==
  /\ pc = "call"
  /\ call \in PhaseCalls
  /\ max_retries = 1
  /\ iteration = 1
  /\ phase = None
  /\ attempt = 1
  /\ attempts = <<>>
  /\ launches = <<>>
  /\ result = NoResult
  /\ signal = NoSignal
  /\ sigfile = MissingFile
  /\ overview = NoOverview
  /\ history = <<>>
  /\ wrote = None
  /\ notifications = <<>>
  /\ exit_code = None
  /\ config = Config("/repo", None, None)
  /\ proc = NoProc
  /\ decoded = NoSignal

\* a call of a pure function changes nothing but its own result
CallFrame ==
  UNCHANGED <<max_retries, iteration, phase, attempt, attempts, launches, result,
              signal, sigfile, overview, history, wrote, notifications,
              exit_code, config, proc, decoded>>

CallValidateTransition ==
  /\ pc = "call"
  /\ call.fn = "validate_transition"
  /\ call' = [call EXCEPT !.ret = validate_transition(call.args[1], call.args[2])]
  /\ pc' = "called"
  /\ CallFrame

CallValidateSignalForPhase ==
  /\ pc = "call"
  /\ call.fn = "validate_signal_for_phase"
  /\ call' = [call EXCEPT !.ret = validate_signal_for_phase(call.args[1], call.args[2])]
  /\ pc' = "called"
  /\ CallFrame

CallIsIterationLimitExceeded ==
  /\ pc = "call"
  /\ call.fn = "is_iteration_limit_exceeded"
  /\ call' = [call EXCEPT !.ret = is_iteration_limit_exceeded(call.args[1], call.args[2])]
  /\ pc' = "called"
  /\ CallFrame

NextPhases ==
  \/ CallValidateTransition
  \/ CallValidateSignalForPhase
  \/ CallIsIterationLimitExceeded

SpecPhases == InitPhases /\ [][NextPhases]_vars

(***************************************************************************)
(* The functions of worker/signal_history.py called on their own, as       *)
(* tests/test_signal_history.py does                                       *)
(***************************************************************************)
\* lines the ledger file grows to
MaxRecords == 3

\* ledger files found at the start: none, and files a crash or an editor
\* left with a blank line or a line that is not JSON
LedgerFiles ==
  {<<>>, <<BlankLine>>, <<GarbageLine>>,
   <<SignalHistoryEntry(1, "init", Signal("continue", None, None, None, None, None)),
     BlankLine>>}

\* signals recorded: the phase they state is absent, empty, a phase name in
\* some letter case, or not a string
LedgerSignals(ledger) ==
  {Signal("continue", None, None, None, None, ph) :
     ph \in {None, "", "init", "INIT", "investigation", NonStr}}
  \cup {Signal("blocked", "s", "r", "n", "f", "init")}

\* phases read from the overview that record_signal falls back to
LedgerFallbacks(ledger) == {None, "Init"}

\* phases asked for
CountedPhases(ledger) == {"init", "INIT", "investigation", "bogus"}

InitLedger ==
  /\ pc = "ledger"
  /\ history \in LedgerFiles
  /\ call = NoCall
  /\ max_retries = 1
  /\ iteration = 1
  /\ phase = None
  /\ attempt = 1
  /\ attempts = <<>>
  /\ launches = <<>>
  /\ result = NoResult
  /\ signal = NoSignal
  /\ sigfile = MissingFile
  /\ overview = NoOverview
  /\ wrote = None
  /\ notifications = <<>>
  /\ exit_code = None
  /\ config = Config("/repo", None, None)
  /\ proc = NoProc
  /\ decoded = NoSignal

LedgerFrame ==
  UNCHANGED <<pc, max_retries, iteration, phase, attempt, attempts, launches,
              result, signal, sigfile, overview, wrote, notifications,
              exit_code, config, proc, decoded>>

\* record_signal(session, signal, iteration, phase_from_overview)
RecordSignal ==
  /\ pc = "ledger"
  /\ Len(history) < MaxRecords
  /\ \E s \in LedgerSignals(history), fb \in LedgerFallbacks(history) :
       /\ history' = record_signal(history, s, Len(history) + 1, fb)
       /\ call' = Call("record_signal", <<s, Len(history) + 1, fb>>, <<FALSE, None>>)
  /\ LedgerFrame

\* get_phase_iteration_count(session, phase): <<raised, count>>
CountPhase ==
  /\ pc = "ledger"
  /\ \E p \in CountedPhases(history) :
       call' = Call("get_phase_iteration_count", <<p>>,
                    IF get_phase_iteration_count_raises(history, p)
                      THEN <<TRUE, 0>>
                      ELSE <<FALSE, get_phase_iteration_count(history, p)>>)
  /\ UNCHANGED history
  /\ LedgerFrame

\* read_signal_history(session): <<raised, entries>>
ReadHistory ==
  /\ pc = "ledger"
  /\ call' = Call("read_signal_history", <<>>, <<FALSE, read_signal_history(history)>>)
  /\ UNCHANGED history
  /\ LedgerFrame

NextLedger ==
  \/ RecordSignal
  \/ CountPhase
  \/ ReadHistory

SpecLedger == InitLedger /\ [][NextLedger]_vars

(***************************************************************************)
(* main.py run again and again on one session: what a run leaves on disk   *)
(* (_overview.md, _signal.json, _signal_history.jsonl) is what the next    *)
(* run finds; every local variable of main starts afresh                   *)
(***************************************************************************)
MaxRuns == 2

\* the sessions the repeated runs start on: a gated phase, a phase next to
\* done, a fresh session, a phase one iteration short of its budget, and a
\* phase over its budget with a non-string phase recorded after it
RestartSessions ==
  {Session(Overview(TRUE, "requirements", 0), <<>>),
   Session(Overview(TRUE, "testing", 0), <<>>),
   Session(NoOverview, <<>>),
   Session(Overview(TRUE, "init", 4), Prior("init", 4)),
   Session(Overview(TRUE, "init", 7), Poisoned("init", 6))}

\* what the agent of a repeated run leaves: _signal.json untouched, a gate
\* request for the next phase or a move to done; _overview.md untouched or
\* rewritten for another phase
RestartEffects(file, found) ==
  {Effect(f, o) :
     f \in {file,
            RawFile("object", "waiting", None, None, None, "f", "planning"),
            RawFile("object", "continue", None, None, None, None, "done")},
     o \in {found, Overview(TRUE, "implementation", found.total)}}

InitRestart ==
  /\ pc = "loop"
  /\ iteration = 0
  /\ phase = None
  /\ attempt = 0
  /\ attempts = <<>>
  /\ launches = <<>>
  /\ result = NoResult
  /\ signal = NoSignal
  /\ sigfile = MissingFile
  /\ max_retries = 1
  /\ config = Config("/repo", None, None)
  /\ \E s \in RestartSessions :
       /\ overview = s.overview
       /\ history = s.history
  /\ wrote = None
  /\ notifications = <<>>
  /\ exit_code = None
  /\ proc = NoProc
  /\ call = Call("main", <<1>>, Pending)
  /\ decoded = NoSignal

\* run_claude_with_retry with one attempt: the agent exits with code 0 or 1
RestartAttempt ==
  /\ pc = "retry"
  /\ attempt <= max_retries
  /\ IF run_claude_once_raises(overview) \/ repo_path_missing(config) THEN
       /\ Crashed
       /\ UNCHANGED <<call, config, proc, decoded, max_retries, iteration, phase,
                      attempt, attempts, launches, result, signal, sigfile,
                      overview, history, wrote>>
     ELSE
       \E rc \in {"0", "1"} :
         \E e \in (IF rc = "0" THEN RestartEffects(sigfile, overview)
                   ELSE {NoEffect(sigfile, overview)}) :
           LET res == ExecutionResult(IF rc = "0" THEN "success" ELSE "failure",
                                      "out", "", rc, attempt, LogFile(attempt))
           IN
           /\ launches' = Append(launches, Launch(overview, attempt, iteration, config))
           /\ sigfile' = e.file
           /\ overview' = e.overview
           /\ attempts' = Append(attempts, res)
           /\ IF retry_continues(res, attempt, max_retries)
                THEN /\ attempt' = attempt + 1
                     /\ UNCHANGED <<pc, result>>
                ELSE /\ result' = retry_returns(attempts', max_retries)
                     /\ pc' = "returned"
                     /\ UNCHANGED attempt
           /\ UNCHANGED <<call, config, proc, decoded, max_retries, iteration, phase,
                          signal, history, wrote, notifications, exit_code>>

\* main is started again on the session after the previous run ended
Restart ==
  /\ pc = "exited"
  /\ call.args[1] < MaxRuns
  /\ call' = Call("main", <<call.args[1] + 1>>, Pending)
  /\ pc' = "loop"
  /\ iteration' = 0
  /\ phase' = None
  /\ attempt' = 0
  /\ attempts' = <<>>
  /\ launches' = <<>>
  /\ result' = NoResult
  /\ signal' = NoSignal
  /\ wrote' = None
  /\ notifications' = <<>>
  /\ exit_code' = None
  /\ UNCHANGED <<config, proc, decoded, max_retries, sigfile, overview, history>>

NextRestart ==
  \/ StartIteration
  \/ RestartAttempt
  \/ HandleFailure
  \/ ProcessSignal
  \/ Restart

SpecRestart == InitRestart /\ [][NextRestart]_vars

(***************************************************************************)
(* Properties                                                              *)
(***************************************************************************)
\* run_claude_with_retry returned SUCCESS and main went on past it
Processed == result.status = "success" /\ pc \in {"loop", "exited"}

\* ... and validate_and_process_signal returned (no exception left it)
Returned == Processed /\ exit_code # "1"

\* the signal read_signal_file produced in this iteration
ReadSignal == read_signal_file(sigfile)

\* number of ledger entries recorded for a phase, compared case-insensitively
LedgerCount(ph) ==
  Cardinality({i \in DOMAIN history :
                 /\ history[i].line = "json"
                 /\ history[i].phase \notin {None, "", NonStr}
                 /\ Lower(history[i].phase) = Lower(ph)})

\* the current phase is gate-required and the signal names another phase
\* with a status other than waiting
GateCase ==
  /\ Processed
  /\ Truthy(phase)
  /\ Lower(phase) \in {"requirements", "planning"}
  /\ Truthy(ReadSignal.phase)
  /\ Lower(ReadSignal.phase) # Lower(phase)
  /\ ReadSignal.status # "waiting"

C2_WritesAreAllowedNext ==
  wrote # None =>
    /\ Processed
    /\ Truthy(phase)
    /\ Lower(phase) \in Phase
    /\ Lower(wrote) \in PHASE_CONFIGS[Lower(phase)].allowed_next
    /\ wrote = ReadSignal.phase
    /\ overview.exists => overview.phase = wrote
    /\ Lower(phase) \in {"requirements", "planning"} => ReadSignal.status = "waiting"

\* C2 witness: Requirements -> PLANNING is committed behind a waiting signal
C2_Witness ==
  /\ wrote = "PLANNING"
  /\ phase = "Requirements"
  /\ signal.status = "waiting"
  /\ overview.phase = "PLANNING"
  /\ pc = "exited"

\* the phase the budget is counted for: the signal's phase, else the current one
EffectivePhase == IF Truthy(ReadSignal.phase) THEN ReadSignal.phase ELSE phase

\* the status of the signal read is legal in the current phase
StatusLegal ==
  /\ Truthy(phase)
  /\ Lower(phase) \in Phase
  /\ Lower(ReadSignal.status) \in PHASE_CONFIGS[Lower(phase)].allowed_signals

\* C3 as stated: for a signal whose status is legal in the current phase, when
\* the ledger holds, after this signal was recorded, more entries for the
\* signal's effective phase than that phase's max_iterations, the signal is
\* dispatched as BLOCKED with needs = investigation and a reason quoting the
\* limit, and the loop stops.
C3_BudgetOverride ==
  ( /\ Processed
    /\ StatusLegal
    /\ EffectivePhase # NonStr
    /\ Lower(EffectivePhase) \in Phase
    /\ LedgerCount(EffectivePhase)
         > PHASE_CONFIGS[Lower(EffectivePhase)].max_iterations )
  =>
    /\ signal = Blocked(EffectivePhase,
                        ExceededReason(PHASE_CONFIGS[Lower(EffectivePhase)].max_iterations),
                        "investigation")
    /\ pc = "exited"
    /\ notifications = <<"blocked">>

\* C4: in an iteration whose current phase is done no signal is dispatched
\* as CONTINUE (continue, waiting and empty signals are overridden to BLOCKED),
\* the orchestrator commits no phase change, and the run stops.
C4_DoneIsTerminal ==
  (Truthy(phase) /\ Lower(phase) = "done") =>
    /\ signal.status # "continue"
    /\ wrote = None
    /\ pc # "loop"
    /\ Processed => pc = "exited"
    /\ (Processed /\ ReadSignal.status \in {"continue", "waiting"}) =>
         /\ signal.status = "blocked"
         /\ signal.needs = "investigation"
         /\ notifications = <<"blocked">>

\* C4 witness: the empty signal in the Done phase is overridden to BLOCKED
C4_Witness ==
  /\ phase = "Done"
  /\ Returned
  /\ sigfile = EmptyObject
  /\ signal.status = "blocked"
  /\ pc = "exited"

\* every attempt made ended in FAILURE or TIMEOUT
AllFailed == \A i \in DOMAIN attempts : attempts[i].status \in {"failure", "timeout"}

\* C5: when every attempt ends in FAILURE or TIMEOUT, run_claude_with_retry
\* calls run_claude_once exactly max_retries times, numbered 1..max_retries in
\* order, and returns RETRY_EXHAUSTED with attempt = max_retries and the
\* stdout, stderr, returncode and log_file of the last attempt.
C5_RetryExhausted ==
  (pc = "returned" /\ AllFailed) =>
    /\ Len(attempts) = max_retries
    /\ \A i \in DOMAIN attempts : attempts[i].attempt = i
    /\ result.status = "retry_exhausted"
    /\ result.attempt = max_retries
    /\ attempts # <<>> =>
         /\ result.stdout = attempts[Len(attempts)].stdout
         /\ result.stderr = attempts[Len(attempts)].stderr
         /\ result.returncode = attempts[Len(attempts)].returncode
         /\ result.log_file = attempts[Len(attempts)].log_file

\* C5 witness: three failing attempts whose first and last payloads differ
C5_Witness ==
  /\ pc = "returned"
  /\ max_retries = 3
  /\ Len(attempts) = 3
  /\ AllFailed
  /\ attempts[1].status = "failure"
  /\ attempts[3].status = "failure"
  /\ attempts[1].stdout # attempts[3].stdout
  /\ attempts[1].returncode # attempts[3].returncode
  /\ result.stdout = attempts[3].stdout
  /\ result.status = "retry_exhausted"

\* C6: the retry loop stops on the first SUCCESS: no attempt follows a
\* SUCCESS, the value returned is that attempt's own result with its attempt
\* number k = the number of calls made, and a FAILURE or a TIMEOUT before
\* the last permitted attempt is always followed by another attempt.
C6_StopOnFirstSuccess ==
  /\ \A i \in DOMAIN attempts :
       /\ attempts[i].attempt = i
       /\ i <= max_retries
       /\ attempts[i].status = "success" => i = Len(attempts)
  /\ (attempts # <<>> /\ attempts[Len(attempts)].status = "success") =>
       /\ pc = "returned"
       /\ result = attempts[Len(attempts)]
       /\ result.status = "success"
       /\ result.attempt = Len(attempts)
  /\ (attempts # <<>> /\ attempts[Len(attempts)].status # "success"
        /\ Len(attempts) < max_retries) =>
       /\ pc = "retry"
       /\ attempt = Len(attempts) + 1

\* C6 witness: a TIMEOUT followed by a SUCCESS yields SUCCESS with attempt = 2
C6_Witness ==
  /\ pc = "returned"
  /\ Len(attempts) = 2
  /\ max_retries = 3
  /\ attempts[1].status = "timeout"
  /\ attempts[2].status = "success"
  /\ result.status = "success"
  /\ result.attempt = 2

\* C7: when run_claude_with_retry returned a status other than SUCCESS the
\* next step of the loop sends one error notification and stops, leaving the
\* signal file unread, the ledger and the overview as they are; and a stopped
\* run takes no further step.
C7_RunnerFailureStops ==
  /\ [][ (pc = "returned" /\ result.status # "success") =>
           /\ pc' = "exited"
           /\ notifications' = Append(notifications, "error")
           /\ signal' = NoSignal
           /\ history' = history
           /\ overview' = overview
           /\ sigfile' = sigfile
           /\ iteration' = iteration ]_vars
  /\ [][ pc # "exited" ]_vars

\* C7 witness: the second iteration's agent left a done signal and a new Phase
\* and then failed on every attempt; the run stopped on the failure
C7_Witness ==
  /\ pc = "exited"
  /\ iteration = 2
  /\ result.status = "retry_exhausted"
  /\ notifications = <<"error">>
  /\ sigfile.status = "done"
  /\ signal = NoSignal
  /\ Len(history) = 1

\* C8 as stated: after a SUCCESS result the dispatched status alone decides:
\* DONE, BLOCKED and WAITING stop the run with one complete, blocked or
\* waiting notification, CONTINUE sends none and the loop goes on; a run
\* sends nothing before it stops.
C8_Dispatch ==
  /\ pc # "exited" => notifications = <<>>
  /\ Processed =>
       /\ signal.status \in SignalStatus
       /\ signal.status = "continue" <=> pc = "loop"
       /\ signal.status = "done" => notifications = <<"complete">>
       /\ signal.status = "blocked" => notifications = <<"blocked">>
       /\ signal.status = "waiting" => notifications = <<"waiting">>

\* C9 as stated: whatever the agent left in _signal.json after a SUCCESS run,
\* the iteration ends with a well-formed signal dispatched and never with
\* the orchestrator crashed.
C9_NeverFatal ==
  Processed =>
    /\ exit_code # "1"
    /\ signal.status \in SignalStatus

\* C10 as stated: a run that stopped with exit code 0 stopped on success; a
\* stop on a failed runner result or on a crash has a non-zero exit code.
C10_ExitCode ==
  pc = "exited" =>
    /\ exit_code = "0" => result.status = "success"
    /\ result.status \in {"timeout", "failure", "retry_exhausted"} => exit_code = "1"

\* the iteration started without a current phase and its last launch was the
\* init agent on a session without overview
FreshIteration ==
  /\ Processed
  /\ phase = None
  /\ launches # <<>>
  /\ launches[Len(launches)].new

\* C11 as stated: on a fresh session the init agent is launched with phase
\* init, and a SUCCESS result with the signal {continue, investigation} makes
\* the orchestrator itself write investigation into the overview's Phase
\* line, and the loop continues.
C11_ScenarioA ==
  ( /\ FreshIteration
    /\ sigfile = RawFile("object", "continue", None, None, None, None, "investigation") )
  =>
    /\ launches[Len(launches)].agent = "init-agent"
    /\ launches[Len(launches)].phase = "init"
    /\ pc = "loop"
    /\ signal.status = "continue"
    /\ wrote = "investigation"

\* C12 as stated: in an iteration without a current phase a signal naming a
\* known phase other than init is overridden to BLOCKED and the run stops.
C12_NullPreStateOnlyInit ==
  ( /\ Returned
    /\ ~Truthy(phase)
    /\ Truthy(ReadSignal.phase)
    /\ ReadSignal.phase # NonStr
    /\ Lower(ReadSignal.phase) \in Phase \ {"init"} )
  =>
    /\ signal.status = "blocked"
    /\ pc = "exited"

\* C13 as stated: with the child still running after the deadline the
\* attempt goes on to kill it, and a TIMEOUT is returned only with the child
\* reaped, returncode None and the transcript path.
C13_Timeout ==
  /\ (proc.child = "running" /\ proc.expired) => ENABLED ProcStep
  /\ (proc.at = "done" /\ result.status = "timeout") =>
       /\ proc.child = "reaped"
       /\ result.returncode = None
       /\ result.log_file = LogFile(attempt)

\* the overview exists and its Phase is missing or names none of the phases
UnmappedPhase ==
  /\ overview.exists
  /\ \/ extract_phase(overview) = None
     \/ Lower(extract_phase(overview)) \notin Phase

\* C14: a call of run_claude_once on an overview with an unmapped phase
\* launches nothing, is not retried, and ends the loop with one more error
\* notification and exit code 1.
C14_UnmappedPhaseIsFatal ==
  [][ (pc = "retry" /\ attempt <= max_retries /\ UnmappedPhase) =>
        /\ launches' = launches
        /\ attempts' = attempts
        /\ attempt' = attempt
        /\ pc' = "exited"
        /\ notifications' = Append(notifications, "error")
        /\ exit_code' = "1" ]_vars

C14_Witness ==
  /\ pc = "exited"
  /\ exit_code = "1"
  /\ UnmappedPhase
  /\ result = NoResult
  /\ launches # <<>>
  /\ notifications = <<"error">>

\* C15: whatever the agent wrote into the session files, every process is
\* launched in the configured repository path, and a configuration without
\* one launches nothing: the call raises.
C15_WorkingDir ==
  /\ \A i \in 1..Len(launches) : launches[i].cwd = config.repo_path
  /\ repo_path_missing(config) => (launches = <<>> /\ pc \in {"once", "raised"})

\* a process launched in the repository although the overview names another
\* working directory
C15_Witness ==
  /\ launches # <<>>
  /\ launches[Len(launches)].cwd = "/repo"
  /\ \E i \in 1..Len(launches) : launches[i].attempt > 1
  /\ overview.exists
  /\ overview.working_dir = "/agent/dir"

\* C16 as stated: only the first invocation of the first iteration of a new
\* session receives the initial dive / task instructions; no invocation for
\* a session that has an overview, and none of a later iteration, does.
C16_InitialOnlyNewSession ==
  \A i \in 1..Len(launches) :
    launches[i].initial => (launches[i].new /\ iteration = 1)

\* the malformed contents C17 names
NotJson == sigfile.kind = "garbage"
EmptyObjectContent == sigfile = EmptyObject
UnknownStatus ==
  /\ sigfile.kind = "object"
  /\ sigfile.status \notin {None, NonStr}
  /\ Lower(sigfile.status) \notin SignalStatus

\* C17 as stated: non-JSON text, the empty object and an unknown status
\* string all decode, without an exception, to BLOCKED with a reason.
C17_MalformedIsBlocked ==
  (pc = "decoded" /\ (NotJson \/ EmptyObjectContent \/ UnknownStatus)) =>
    /\ decoded.status = "blocked"
    /\ decoded.reason # None

\* C17 amended: non-JSON text and an unknown status string decode to BLOCKED
\* with a reason in both codecs; the empty object decodes to BLOCKED with a
\* reason only in the earlier codec (signals.py), and to CONTINUE with every
\* optional field absent in the codec the loop uses (worker/signals.py).
C17_MalformedIsBlockedAmended ==
  /\ (pc \in {"decoded", "legacy_decoded"} /\ (NotJson \/ UnknownStatus)) =>
       /\ decoded.status = "blocked"
       /\ decoded.reason # None
  /\ (pc = "legacy_decoded" /\ EmptyObjectContent) =>
       /\ decoded.status = "blocked"
       /\ decoded.reason # None
  /\ (pc = "decoded" /\ EmptyObjectContent) =>
       decoded = Signal("continue", None, None, None, None, None)

C17_Witness ==
  /\ pc = "legacy_decoded"
  /\ UnknownStatus
  /\ sigfile.status = "bogus"
  /\ sigfile.reason = "r"
  /\ decoded.status = "blocked"

\* the agent left the {} the loop had written before it ran
EmptyAfterSuccess == Processed /\ sigfile = EmptyObject

\* continue is allowed in the current phase (a fresh session has none)
ContinueLegal ==
  Truthy(phase) => "continue" \in PHASE_CONFIGS[Lower(phase)].allowed_signals

\* the ledger, this iteration recorded, is within the current phase's budget
WithinBudget ==
  Truthy(phase) => LedgerCount(phase) <= PHASE_CONFIGS[Lower(phase)].max_iterations

\* C18: a {} left in _signal.json after a SUCCESS run is read as CONTINUE
\* with every optional field absent; when the legality and budget checks let
\* it through the loop goes on with it, and when one of them does not the run
\* stops BLOCKED.
C18_EmptyMeansContinue ==
  EmptyAfterSuccess =>
    /\ ReadSignal = Signal("continue", None, None, None, None, None)
    /\ (Returned /\ ContinueLegal /\ WithinBudget) =>
         /\ signal = ReadSignal
         /\ pc = "loop"
         /\ wrote = None
    /\ (Returned /\ ~(ContinueLegal /\ WithinBudget)) =>
         /\ signal.status = "blocked"
         /\ pc = "exited"

C18_Witness ==
  /\ EmptyAfterSuccess
  /\ phase = "planning"
  /\ signal.status = "continue"
  /\ pc = "loop"
  /\ Len(history) = 1

\* the contents C19 names as failing closed: no file, text that is not JSON,
\* a non-empty JSON value that is not an object, and an object whose status
\* is absent, not a string or outside the enum
FailsClosedContent ==
  \/ sigfile.kind \in {"missing", "garbage", "nonobj", "zero"}
  \/ /\ sigfile.kind = "object"
     /\ \/ sigfile.status \in {None, NonStr}
        \/ Lower(sigfile.status) \notin SignalStatus

\* C19 as stated: read_signal_file returns, for every content of the file, a
\* Signal whose status is in the enum, and for each of the contents above
\* BLOCKED with a reason and needs = investigation.
C19_TotalFailsClosed ==
  pc = "decoded" =>
    /\ decoded.status \in SignalStatus
    /\ FailsClosedContent =>
         /\ decoded.status = "blocked"
         /\ decoded.reason # None
         /\ decoded.needs = "investigation"

\* C20: a Signal written as json.dumps(signal.to_dict()) and read back by
\* read_signal_file is the same Signal: same status, same fields, absent
\* fields absent; on the wire waiting_for is the key "for" and the status is
\* one of the lowercase enum values.
C20_RoundTrip ==
  /\ pc \in {"encoded", "round_trip"} =>
       /\ sigfile.kind = "object"
       /\ sigfile.for = signal.waiting_for
       /\ sigfile.status \in SignalStatus
       /\ Lower(sigfile.status) = sigfile.status
  /\ pc = "round_trip" => decoded = signal

C20_Witness ==
  /\ pc = "round_trip"
  /\ signal = Signal("waiting", None, "r", None, "f", "planning")
  /\ decoded.waiting_for = "f"
  /\ decoded.summary = None

\* a name of one of the eight phases, in any letter case
Known(name) == name # None /\ Lower(name) \in Phase

\* a call of fn has returned
Called(fn) == pc = "called" /\ call.fn = fn

\* C21: validate_transition follows the ordered rule list: no target is
\* invalid; from no phase only init is valid; an unknown source is invalid;
\* an unknown target is invalid; the same phase is valid; otherwise the move
\* is valid exactly when the target is in allowed_next of the source.
C21_TransitionRuleList ==
  Called("validate_transition") =>
    LET from == call.args[1]
        to == call.args[2]
        valid == call.ret[1]
        msg == call.ret[2]
    IN
    /\ to = None => ~valid
    /\ (to # None /\ from = None) =>
         /\ valid <=> Lower(to) = "init"
         /\ ~valid => msg = "New session must start with 'init'"
    /\ (to # None /\ from # None /\ ~Known(from)) =>
         (~valid /\ msg = "Unknown source phase")
    /\ (to # None /\ Known(from) /\ ~Known(to)) =>
         (~valid /\ msg = "Unknown target phase")
    /\ (Known(from) /\ Known(to) /\ Lower(from) = Lower(to)) => valid
    /\ (Known(from) /\ Known(to) /\ Lower(from) # Lower(to)) =>
         (valid <=> Lower(to) \in PHASE_CONFIGS[Lower(from)].allowed_next)
    /\ valid => msg = ""

\* the self-loop of a phase whose allowed_next does not hold it
C21_Witness ==
  /\ Called("validate_transition")
  /\ call.args = <<"TESTING", "testing">>
  /\ call.ret = <<TRUE, "">>

\* C22 as stated: from done every target is invalid.
C22_DoneToAnythingInvalid ==
  (Called("validate_transition") /\ Known(call.args[1])
     /\ Lower(call.args[1]) = "done") =>
    ~call.ret[1]

\* C22 amended: from done every target other than done itself is invalid;
\* done to done (in any letter case) is the valid self-loop.
C22_DoneOnlyToDone ==
  (Called("validate_transition") /\ Known(call.args[1])
     /\ Lower(call.args[1]) = "done") =>
    (call.ret[1] <=> (Known(call.args[2]) /\ Lower(call.args[2]) = "done"))

C22_Witness ==
  /\ Called("validate_transition")
  /\ call.args = <<"done", "init">>
  /\ call.ret = <<FALSE, "Invalid transition">>

\* C23: in a known phase a status is valid exactly when, lowercased, it is in
\* the phase's allowed signals; in an unknown or absent phase every status
\* is valid, with a warning; blocked is legal in all eight phases, continue
\* is illegal in done and done is illegal in init.
C23_SignalLegality ==
  Called("validate_signal_for_phase") =>
    LET p == call.args[1]
        st == call.args[2]
        valid == call.ret[1]
        msg == call.ret[2]
    IN
    /\ Known(p) =>
         /\ valid <=> Lower(st) \in PHASE_CONFIGS[Lower(p)].allowed_signals
         /\ valid <=> msg = ""
    /\ ~Known(p) => (valid /\ msg = "Unknown phase")
    /\ (Known(p) /\ Lower(st) = "blocked") => valid
    /\ (Known(p) /\ Lower(p) = "done" /\ Lower(st) = "continue") => ~valid
    /\ (Known(p) /\ Lower(p) = "init" /\ Lower(st) = "done") => ~valid

C23_Witness ==
  /\ Called("validate_signal_for_phase")
  /\ call.args = <<"Done", "CONTINUE">>
  /\ call.ret = <<FALSE, "Signal not allowed in phase">>

\* C24: for a known phase the limit is exceeded exactly when the count is
\* above max_iterations, which is returned as the second component; for an
\* unknown or absent phase it is never exceeded and the maximum is 0.
C24_BudgetThreshold ==
  Called("is_iteration_limit_exceeded") =>
    LET p == call.args[1]
        n == call.args[2]
    IN
    /\ Known(p) =>
         /\ call.ret[2] = PHASE_CONFIGS[Lower(p)].max_iterations
         /\ n <= call.ret[2] => ~call.ret[1]
         /\ n > call.ret[2] => call.ret[1]
    /\ ~Known(p) => call.ret = <<FALSE, 0>>

\* a count exactly at the limit is allowed
C24_Witness ==
  /\ Called("is_iteration_limit_exceeded")
  /\ call.args = <<"Done", 3>>
  /\ call.ret = <<FALSE, 3>>

\* C25 as stated: get_phase_iteration_count returns, without raising, the
\* number of recorded entries whose phase equals the asked one
\* case-insensitively; blank lines and lines that are not JSON do not count.
C25_LedgerCount ==
  (call.fn = "get_phase_iteration_count") =>
    /\ ~call.ret[1]
    /\ call.ret[2] = LedgerCount(call.args[1])

ValidationPhase == IF Truthy(phase) THEN phase ELSE ReadSignal.phase

\* C27 as stated: a status that is not allowed in the signal's own phase, or
\* in the current phase when the signal states none, is overridden to
\* BLOCKED with needs = investigation.
C27_LegalityInSignalPhase ==
  ( /\ Returned
    /\ EffectivePhase # NonStr
    /\ Known(EffectivePhase)
    /\ ReadSignal.status \notin PHASE_CONFIGS[Lower(EffectivePhase)].allowed_signals )
  =>
    /\ signal.status = "blocked"
    /\ signal.needs = "investigation"

\* C27 amended: the status is checked against the allowed signals of the
\* current phase, and of the signal's own phase only when there is no
\* current phase; a status illegal there is overridden to BLOCKED with
\* needs = investigation and the run stops with the overview untouched; a
\* status legal there is never overridden as an invalid signal.
C27_LegalityInCurrentPhase ==
  /\ ( /\ Processed
       /\ ValidationPhase # NonStr
       /\ Known(ValidationPhase)
       /\ ReadSignal.status \notin PHASE_CONFIGS[Lower(ValidationPhase)].allowed_signals )
     =>
       /\ signal = Blocked(EffectivePhase, "Invalid signal", "investigation")
       /\ pc = "exited"
       /\ exit_code = "0"
       /\ wrote = None
  /\ ( /\ Returned
       /\ ValidationPhase # NonStr
       /\ \/ ~Known(ValidationPhase)
          \/ ReadSignal.status \in PHASE_CONFIGS[Lower(ValidationPhase)].allowed_signals )
     => signal.reason # "Invalid signal"

\* continue is legal in testing, the current phase, and illegal in done, the
\* phase the signal states: the signal passes
C27_Witness ==
  /\ Returned
  /\ phase = "testing"
  /\ sigfile = RawFile("object", "continue", None, None, None, None, "done")
  /\ signal = ReadSignal
  /\ wrote = "done"
  /\ pc = "loop"

\* C28: a step of validate_and_process_signal that returns a signal other
\* than the one read from the file returns BLOCKED, does not call
\* update_phase and leaves the overview as the agent's run left it.
C28_OverridesCommitNothing ==
  [][ ( /\ pc = "returned"
        /\ result.status = "success"
        /\ exit_code' # "1"
        /\ signal' # read_signal_file(sigfile) )
      =>
        /\ signal'.status = "blocked"
        /\ wrote' = None
        /\ overview' = overview ]_vars

\* an illegal transition overridden: the overview still names the phase the
\* iteration started in
C28_Witness ==
  /\ Returned
  /\ phase = "testing"
  /\ ReadSignal = Signal("continue", None, None, None, None, "planning")
  /\ signal = Blocked("testing", "Invalid transition", "investigation")
  /\ overview.phase = "testing"
  /\ wrote = None

\* C29: the step that handles a successful run appends exactly one entry to
\* the ledger, whatever validation then decides (pass, override or crash):
\* the entry has the iteration's number, the status and fields of the signal
\* read from the file, and the signal's phase if it has one, else the phase
\* read from the overview before the run. No other step changes the ledger.
C29_RecordFirst ==
  [][ IF pc = "returned" /\ result.status = "success" THEN
        LET read == read_signal_file(sigfile) IN
        /\ Len(history') = Len(history) + 1
        /\ SubSeq(history', 1, Len(history)) = history
        /\ history'[Len(history')] =
             [line |-> "json", iteration |-> iteration,
              phase |-> IF Truthy(read.phase) THEN read.phase ELSE phase,
              status |-> read.status, summary |-> read.summary,
              reason |-> read.reason, needs |-> read.needs,
              for |-> read.waiting_for]
      ELSE history' = history ]_vars

\* an overridden signal of an agent that named its own phase: the ledger
\* ends with the agent's signal, not with the override
C29_Witness ==
  /\ Returned
  /\ signal.status = "blocked"
  /\ ReadSignal.status = "continue"
  /\ Truthy(ReadSignal.phase)
  /\ ReadSignal.phase # phase
  /\ Truthy(phase)
  /\ Len(history) > 0
  /\ history[Len(history)].status = "continue"
  /\ history[Len(history)].phase = ReadSignal.phase
  /\ history[Len(history)].iteration = iteration

\* C30: clear_signal_file leaves {} in _signal.json and returns the previous
\* content exactly when there was a file that was neither blank nor {}; the
\* first attempt of an iteration that launches the agent finds {} in the
\* file; within an iteration only a launched agent changes the file, so what
\* read_signal_file reads is {} or what an agent of this iteration wrote.
C30_SignalReset ==
  [][ /\ (pc = "loop" /\ pc' = "retry") =>
           /\ sigfile' = EmptyObject
           /\ clear_signal_file(sigfile)[2] =
                (IF sigfile.kind \in {"missing", "blank"} \/ sigfile.kind = "falsy"
                 THEN MissingFile ELSE sigfile)
      /\ (pc = "retry" /\ attempt = 1 /\ Len(launches') > Len(launches)) =>
           sigfile = EmptyObject
      /\ (pc = "retry" /\ sigfile' # sigfile) => Len(launches') > Len(launches)
      /\ (pc = "returned") => sigfile' = sigfile ]_vars

\* the second iteration about to launch its first attempt: the signal a
\* continuing first iteration acted on is gone from the file
C30_Witness ==
  /\ pc = "retry"
  /\ iteration = 2
  /\ attempt = 1
  /\ launches = <<>>
  /\ signal = NoSignal
  /\ Len(history) > 0
  /\ history[Len(history)].iteration = 1
  /\ history[Len(history)].status = "continue"
  /\ history[Len(history)].phase = "PLANNING"
  /\ sigfile = EmptyObject

\* C31: every iteration takes its current phase from the overview as it is
\* on disk when the iteration starts and keeps it until the iteration ends; a
\* new run starts with nothing remembered and finds the overview the
\* previous run left.
C31_NoCachedPhase ==
  [][ /\ (pc = "loop" /\ pc' = "retry") => phase' = extract_phase(overview)
      /\ (pc \in {"retry", "returned"}) => phase' = phase
      /\ (pc = "exited" /\ pc' = "loop") =>
           /\ overview' = overview
           /\ phase' = None
           /\ iteration' = 0 ]_vars

\* a second run that begins in planning, the phase the first run committed
\* when it stopped on WAITING in requirements
C31_Witness ==
  /\ call.args = <<2>>
  /\ pc = "retry"
  /\ iteration = 1
  /\ phase = "planning"
  /\ history # <<>>
  /\ history[Len(history)].status = "waiting"
  /\ history[Len(history)].phase = "planning"
  /\ history[Len(history)].iteration = 1

\* C32: from Popen to its return _execute_process touches none of
\* _signal.json, _overview.md and _signal_history.jsonl, the orchestrator
\* stays inside it for as long as there is a child that was not reaped, and
\* when it returns (normal exit, timeout, exception after launch, failed
\* launch) there is no child or the child has been waited for.
C32_MutualExclusion ==
  [][ /\ <<sigfile, overview, history>>' = <<sigfile, overview, history>>
      /\ proc'.child \in {"running", "exited", "killed"} => pc' = "exec"
      /\ pc' = "returned" =>
           /\ proc'.at = "done"
           /\ proc'.child \in {"none", "reaped"} ]_vars

\* a child that ran past the deadline was killed and reaped before TIMEOUT
\* was returned
C32_Witness ==
  /\ pc = "returned"
  /\ result.status = "timeout"
  /\ proc.child = "reaped"
  /\ proc.returncode = "-9"

\* C33: an execution returns SUCCESS exactly when it saw the child exit with
\* code 0; a child seen to exit with another code gives FAILURE with that
\* code; a failed launch or an error while streaming gives FAILURE with the
\* error text and no return code; the deadline gives TIMEOUT with no return
\* code. The result is never RETRY_EXHAUSTED and carries the attempt number.
C33_Classification ==
  [][ pc' = "returned" =>
        /\ result'.attempt = attempt
        /\ result'.status \in {"success", "failure", "timeout"}
        /\ result'.status = "success" <=> (proc.at = "drain" /\ proc.returncode = "0")
        /\ (proc.at = "drain" /\ proc.returncode # "0") =>
             /\ result'.status = "failure"
             /\ result'.returncode = proc.returncode
        /\ proc.at = "drain" => result'.returncode = proc.returncode
        /\ proc.at \in {"popen", "except"} =>
             /\ result'.status = "failure"
             /\ result'.stderr \in {"launch error", "error"}
             /\ result'.returncode = None
        /\ proc.at = "timeout_wait" =>
             /\ result'.status = "timeout"
             /\ result'.returncode = None ]_vars

\* the third attempt saw its child exit with code 1
C33_Witness ==
  /\ pc = "returned"
  /\ attempt = 3
  /\ result.attempt = 3
  /\ result.status = "failure"
  /\ result.returncode = "1"
  /\ proc.child = "reaped"

\* C34 as stated: a signal whose effective phase is a known phase that already
\* had more than max_iterations entries in the ledger before the signal was
\* recorded is dispatched as BLOCKED, in the run that exhausted the budget
\* and in every later run.
C34_ExhaustionIsPermanent ==
  ( /\ Processed
    /\ Truthy(EffectivePhase)
    /\ EffectivePhase # NonStr
    /\ Lower(EffectivePhase) \in Phase
    /\ LedgerCount(EffectivePhase) - 1
         > PHASE_CONFIGS[Lower(EffectivePhase)].max_iterations )
  =>
    /\ pc = "exited"
    /\ exit_code = "0"
    /\ signal.status = "blocked"
    /\ notifications = <<"blocked">>

\* C35 as stated: the loop halts because every iteration dispatched as
\* CONTINUE is charged to the budget of a known phase and is within it, the
\* iteration in which the agent created the overview excepted; so the
\* CONTINUE iterations of a session cannot outnumber the sum of the budgets,
\* whatever the agent writes or does not write.
C35_ContinueIsBudgeted ==
  (Returned /\ signal.status = "continue") =>
    \/ /\ Truthy(EffectivePhase)
       /\ EffectivePhase # NonStr
       /\ Lower(EffectivePhase) \in Phase
       /\ LedgerCount(EffectivePhase)
            <= PHASE_CONFIGS[Lower(EffectivePhase)].max_iterations
    \/ /\ phase = None
       /\ overview.exists

\* C36 as stated: DONE is dispatched, and the complete notification sent,
\* only in an iteration whose current phase is done; a done signal read in
\* any other iteration, one without a current phase included, is overridden
\* to BLOCKED.
C36_CompletionOnlyFromDone ==
  /\ (Processed /\ (signal.status = "done" \/ notifications = <<"complete">>)) =>
       /\ Truthy(phase)
       /\ Lower(phase) = "done"
  /\ (Returned /\ ReadSignal.status = "done"
        /\ ~(Truthy(phase) /\ Lower(phase) = "done")) =>
       /\ signal.status = "blocked"
       /\ notifications = <<"blocked">>

\* C37 as stated: when an attempt after the first returns SUCCESS and has not
\* itself written _signal.json, the file holds the reset value {}: nothing an
\* earlier failed or timed-out attempt of the iteration wrote is left for
\* read_signal_file.
C37_NoStaleSignal ==
  [][ ( /\ pc = "retry"
        /\ attempt > 1
        /\ pc' = "returned"
        /\ result'.status = "success"
        /\ sigfile' = sigfile )
      => sigfile = EmptyObject ]_vars

\* C38 as stated: once the child has exited with code 0 and the deadline has
\* not passed, the execution can only return SUCCESS, with everything the
\* child wrote read from the pipe, whatever the read loop is doing at that
\* moment and whenever the deadline then passes.
C38_ExitBeatsDeadline ==
  []( (pc = "exec" /\ proc.child = "exited" /\ proc.returncode = "0" /\ ~proc.expired)
      => [](pc = "returned" =>
              /\ result.status = "success"
              /\ proc.pipe = "empty") )

\* C39 as stated: every execution eventually returns a result, whatever the
\* child writes and whether or not it ever exits.
C39_EveryAttemptResolves == <>(pc = "returned")

\* C40: the only process invocation of a run whose context holds the initial
\* instructions is attempt 1 of iteration 1, and only when --dive or --task
\* was given; retries and later iterations are launched without them, so at
\* most one invocation of a run has them.
C40_InitialAtMostOnce ==
  /\ \A i \in DOMAIN launches :
       launches[i].initial =>
         /\ iteration = 1
         /\ launches[i].attempt = 1
         /\ Truthy(config.initial_dive) \/ Truthy(config.initial_task)
  /\ Cardinality({i \in DOMAIN launches : launches[i].initial}) <= 1

\* a run started with --dive whose first attempt got the instructions and
\* failed, and whose second attempt was launched without them
C40_Witness ==
  /\ iteration = 1
  /\ config.initial_dive = "topic"
  /\ Len(launches) >= 2
  /\ launches[1].initial
  /\ launches[2].attempt = 2
  /\ ~launches[2].initial
  /\ attempts[1].status = "failure"

====
